---- MODULE Spec2Model ----
(***************************************************************************)
(* PolyADCIRC run framework: full domains, subdomains, the subdomain to    *)
(* full-domain node map and the comparison of subdomain output against     *)
(* full-domain output.                                                     *)
(*   src/polyadcirc/run_framework/fulldomain.py                            *)
(*   src/polysim/run_framework/subdomain.py                                *)
(***************************************************************************)
EXTENDS Integers, Sequences, FiniteSets, TLC

(***************************************************************************)
(* Bounds of the model                                                     *)
(***************************************************************************)
\* largest number of nodes of a subdomain output array / entries of a node map
MaxSubNodes == 2
\* largest number of observations (time axis) of an output array
MaxObs == 2
\* the full domain has room for one node more than a subdomain
MaxFullNodes == MaxSubNodes + 1

\* longest fulldomain.subdomains list
MaxSubList == 2
\* most data lines of a mapping file (py.140, py.141)
MaxLines == 2

\* the subdomain objects, the full domain objects, the directories
Subs == {"s1", "s2"}
Fulls == {"F1"}
\* the longest list of subdomains given to genfull: one name for each
\* subdomain object
MaxNames == Cardinality(Subs)
NoDomain == "None"
Paths == {"full", "subA", "subB"}
\* self.flag = None
NoFlag == -1

VARIABLES
    path,           \* domain.path : the directory of each domain object
    subdomains,     \* fulldomain.subdomains : list of subdomains
    fulldomain,     \* subdomain.fulldomain : back-reference of each subdomain
    flag,           \* subdomain.flag : 0 ellipse, 1 circle, NoFlag
    nspoolgs,       \* subdomain.nspoolgs as set by genfull (0: not set)
    files,          \* the names of the files present in each directory
    py140,          \* the data lines of py.140 in each directory
    py141,          \* the data lines of py.141 in each directory
    sub2full_node,  \* subdomain.sub2full_node, with whether it was ever read
    sub2full_element, \* subdomain.sub2full_element, likewise
    last,           \* the last call of a method: what it did and returned
    lastShape,      \* the shape setter that wrote last in each directory
    runs,           \* the solver output of the two runs that is compared
    cmp             \* what the last comparison computed and returned

vars == <<path, subdomains, fulldomain, flag, nspoolgs, files, py140, py141,
          sub2full_node, sub2full_element, last, lastShape, runs, cmp>>

(***************************************************************************)
(* Python values                                                           *)
(***************************************************************************)
Min(a, b) == IF a <= b THEN a ELSE b

\* a dict is a function on its key set; the empty dict
EmptyDict == [k \in {} |-> 0]

RECURSIVE SortSet(_)
SortSet(S) ==
    IF S = {} THEN <<>>
    ELSE LET m == CHOOSE x \in S : \A y \in S : x <= y
         IN  <<m>> \o SortSet(S \ {m})

\* d.values(): CPython 2 walks the hash table by slot, and an int hashes to
\* itself, so a dict of small distinct int keys is walked in key order
DictValues(d) ==
    LET ks == SortSet(DOMAIN d)
    IN  [i \in 1..Len(ks) |-> d[ks[i]]]

\* fid.replace('.', '') on a name given as its sequence of pieces
DOT == "."
Replace(fid) == SelectSeq(fid, LAMBDA c : c # DOT)

\* a map that was never read (the attribute does not exist yet)
NoMap == [read |-> FALSE, map |-> EmptyDict]

(***************************************************************************)
(* What a method call did: the files it wrote and removed and the external *)
(* programs it ran, in order, and what it returned.  ready is what the     *)
(* test at the entry of the method saw: check_fulldomain() for genfull and *)
(* genbcs, "flag == None and self.flag == None" for setup; n is the number *)
(* the call worked on: the subdomains requested, the flag in use.          *)
(***************************************************************************)
Written(dir, name) ==
    [kind |-> "write", dir |-> dir, what |-> name, n |-> 0, present |-> {}]
Removed(dir, name) ==
    [kind |-> "remove", dir |-> dir, what |-> name, n |-> 0, present |-> {}]
\* subprocess.call(command, shell=True, cwd=dir): the program, its numeric
\* argument, the files of dir when it starts
Called(dir, prog, n, present) ==
    [kind |-> "call", dir |-> dir, what |-> prog, n |-> n, present |-> present]

NoLast == [op |-> "none", obj |-> NoDomain, ret |-> "none", ready |-> FALSE,
           n |-> 0, events |-> <<>>]
Did(op, obj, ret, ready, n, events) ==
    [op |-> op, obj |-> obj, ret |-> ret, ready |-> ready, n |-> n, events |-> events]

Calls(l) == SelectSeq(l.events, LAMBDA e : e.kind = "call")

(***************************************************************************)
(* numpy arrays: nr rows (nodes), nc columns (observations); a cell is the *)
(* sequence along the last axis (one value for a 2D array, two for 3D).    *)
(* Raised stands for the exception an operation on arrays raised.          *)
(***************************************************************************)
Array(nr, nc, cells) == [ok |-> TRUE, nr |-> nr, nc |-> nc, a |-> cells]

Raised == [ok |-> FALSE, nr |-> 0, nc |-> 0, a |-> [i \in 1..0 |-> <<>>]]

\* a[idx]: a negative index counts from the end, an index outside
\* -n .. n-1 raises IndexError
IndexOk(r, n) == r >= 0 - n /\ r < n
PyIndex(r, n) == IF r >= 0 THEN r + 1 ELSE n + r + 1

\* A[nodes, 0:total_obs] (and A[nodes, 0:total_obs, :]): the rows listed in
\* nodes, the first total_obs columns of each (a slice stops at the end of
\* the axis)
IndexNodesObs(A, nodes, total_obs) ==
    IF ~A.ok \/ \E i \in 1..Len(nodes) : ~IndexOk(nodes[i], A.nr)
    THEN Raised
    ELSE Array(Len(nodes), Min(A.nc, total_obs),
               [i \in 1..Len(nodes) |-> [j \in 1..Min(A.nc, total_obs) |->
                   A.a[PyIndex(nodes[i], A.nr)][j]]])

\* A[nodes] of a one-axis (non-timeseries) array, kept as an nr x 1 array
IndexNodes(A, nodes) == IndexNodesObs(A, nodes, 1)

CellMinus(x, y) == [d \in 1..Len(x) |-> x[d] - y[d]]

\* A - B with numpy's broadcasting: two lengths of an axis are compatible
\* when they are equal or one of them is 1; otherwise ValueError
Compatible(m, n) == m = n \/ m = 1 \/ n = 1
BroadcastLen(m, n) == IF m = 1 THEN n ELSE m
Minus(A, B) ==
    IF ~A.ok \/ ~B.ok \/ ~Compatible(A.nr, B.nr) \/ ~Compatible(A.nc, B.nc)
    THEN Raised
    ELSE Array(BroadcastLen(A.nr, B.nr), BroadcastLen(A.nc, B.nc),
               [i \in 1..BroadcastLen(A.nr, B.nr) |->
                  [j \in 1..BroadcastLen(A.nc, B.nc) |->
                     CellMinus(A.a[IF A.nr = 1 THEN 1 ELSE i][IF A.nc = 1 THEN 1 ELSE j],
                               B.a[IF B.nr = 1 THEN 1 ELSE i][IF B.nc = 1 THEN 1 ELSE j])]])

\* np.array([full_data.T, sub_data.T]).T : the two arrays stacked along a
\* new last axis; arrays of different shapes do not stack to a numeric array
Stack(F, S) ==
    IF F.ok /\ S.ok /\ F.nr = S.nr /\ F.nc = S.nc
    THEN [ok |-> TRUE, full |-> F, sub |-> S]
    ELSE [ok |-> FALSE, full |-> Raised, sub |-> Raised]

(***************************************************************************)
(* Output names and keys                                                   *)
(***************************************************************************)
fort61 == <<"fort", "61">>
fort62 == <<"fort", "62">>
fort63 == <<"fort", "63">>
fort64 == <<"fort", "64">>
maxele63 == <<"maxele", "63">>
TsKeys == {fort61, fort62, fort63, fort64}
NtsKeys == {maxele63}
\* the file name of an output, as callers give it: 'fort.63'
Name(key) == <<key[1], DOT, key[2]>>

\* self.recording[key][2]: 1 when the output holds one value per node and
\* observation (a 2D array), 2 when it holds a vector (a 3D array)
Recording(key) == IF key \in {fort61, fort63, maxele63} THEN 1 ELSE 2

\* the value the solver writes for a dry node
DryValue == -99

(***************************************************************************)
(* The outputs of the two runs. A run is described by the shape of its     *)
(* arrays and an offset of its values; dry says that node 1 is dry at the  *)
(* first observation.                                                      *)
(***************************************************************************)
Value(run, dry, i, j) ==
    IF dry /\ i = 1 /\ j = 1 THEN DryValue
    ELSE (MaxObs + 1) * i + j + run.off

Cell(v, key) == IF Recording(key) = 1 THEN <<v>> ELSE <<v, v + 1>>

\* output.get_ts_sr(path, fid)[0] and the arrays of a runSet
TsArray(run, dry, key) ==
    Array(run.nr, run.nc,
          [i \in 1..run.nr |-> [j \in 1..run.nc |-> Cell(Value(run, dry, i, j), key)]])

\* output.get_nts_sr(path, domain, fid)
NtsArray(run, dry, key) ==
    Array(run.nr, 1,
          [i \in 1..run.nr |-> [j \in 1..1 |-> Cell(Value(run, dry, i, 1), key)]])

TsBundle(run, dry) == [k \in TsKeys |-> TsArray(run, dry, k)]
NtsBundle(run, dry) == [k \in NtsKeys |-> NtsArray(run, dry, k)]

\* d[key], KeyError for a key the dict does not hold
Lookup(d, key) == IF key \in DOMAIN d THEN d[key] ELSE Raised

\* rmn.fix_dry_nodes / rmn.fix_dry_data: the values of dry nodes zeroed
Wet(A) ==
    IF ~A.ok THEN A
    ELSE Array(A.nr, A.nc,
               [i \in 1..A.nr |-> [j \in 1..A.nc |->
                  [d \in 1..Len(A.a[i][j]) |->
                     IF A.a[i][j][d] = DryValue THEN 0 ELSE A.a[i][j][d]]]])
fix_dry_nodes(bundle) ==
    [k \in DOMAIN bundle |-> IF k = fort63 THEN Wet(bundle[k]) ELSE bundle[k]]
fix_dry_data(bundle) ==
    [k \in DOMAIN bundle |-> IF k = fort61 THEN Wet(bundle[k]) ELSE bundle[k]]

\* mutant of fulldom_nodes: the mapped ids used as they are, without the
\* step from 1-based ids to 0-based rows
fulldom_nodes_1based(s) == DictValues(sub2full_node[s].map)

\* fulldom_nodes = [v-1 for v in self.sub2full_node.values()]
fulldom_nodes(s) ==
    LET vs == DictValues(sub2full_node[s].map)
    IN  [i \in 1..Len(vs) |-> vs[i] - 1]

\* the keys of a list of names: key = fid.replace('.', '')
KeysOf(names) == [i \in 1..Len(names) |-> Replace(names[i])]

\* the index of the first key of ks whose result raised, Len(ks)+1 if none
FirstRaise(ks, res) ==
    LET bad == {i \in 1..Len(ks) : ~res[ks[i]].ok}
    IN  IF bad = {} THEN Len(ks) + 1 ELSE CHOOSE i \in bad : \A j \in bad : i <= j

Range(seq) == {seq[i] : i \in 1..Len(seq)}

(***************************************************************************)
(* The comparison of subdomain output with full-domain output              *)
(***************************************************************************)
\* the order in which a dict of output arrays lists its keys
KeyOrder == <<fort61, fort62, fort63, fort64, maxele63>>
DictKeys(d) == SelectSeq(KeyOrder, LAMBDA k : k \in DOMAIN d)

NoNames == [given |-> FALSE, names |-> <<>>]
Names(list) == [given |-> TRUE, names |-> list]

\* nts_keys / ts_keys of compare_runSet: the keys of the data when no names
\* are given, the names without their dots otherwise
RunSetKeys(arg, data) == IF arg.given THEN KeysOf(arg.names) ELSE DictKeys(data)

\* mutant of SkipKey: no key is skipped
SkipKey_never(key) == FALSE

\* "if key == 'fort61' or key == 'fort62': continue"
SkipKey(key) == key = fort61 \/ key = fort62

Tag(t, key) == <<t>> \o key
DiffTrace(ks, n) == [i \in 1..Min(n, Len(ks)) |-> Tag("diff", ks[i])]

NoCmp ==
    [op |-> "none", sub |-> NoDomain, status |-> "none",
     ts_keys |-> <<>>, nts_keys |-> <<>>,
     ts_error |-> EmptyDict, nts_error |-> EmptyDict,
     time_obs |-> {}, ts_data |-> {}, nts_data |-> {}, mdict |-> {},
     trunc |-> EmptyDict, trace |-> <<>>]

\* one pass of a timeseries loop for key k: the subdomain array, the
\* full-domain array at the mapped nodes cut to the subdomain's observations
TsPair(full_ts, sub_ts, nodes, k) ==
    LET sub_data == Lookup(sub_ts, k)
        total_obs == sub_data.nc
        full_data == IF sub_data.ok
                     THEN IndexNodesObs(Lookup(full_ts, k), nodes, total_obs)
                     ELSE Raised
    IN  [full_data |-> full_data, sub_data |-> sub_data]

\* the observation-axis lengths the subtraction of key k meets
TruncOf(pairs, ks, n) ==
    LET seen == {ks[i] : i \in 1..Min(n, Len(ks))}
    IN  [k \in {x \in seen : pairs[x].full_data.ok} |->
            <<pairs[k].full_data.nc, pairs[k].sub_data.nc>>]

compare_runSet(s, ts_names, nts_names) ==
    LET ts_sub0 == TsBundle(runs.sub, runs.dry)
        ts_full0 == TsBundle(runs.full, runs.dry)
        nts_sub == NtsBundle(runs.sub, runs.dry)
        nts_full == NtsBundle(runs.full, runs.dry)
        nts_keys == RunSetKeys(nts_names, nts_sub)
        ts_keys == RunSetKeys(ts_names, ts_sub0)
        nodes == fulldom_nodes(s)
        nts_res == [k \in Range(nts_keys) |->
                      Minus(IndexNodes(Lookup(nts_full, k), nodes), Lookup(nts_sub, k))]
        nbad == FirstRaise(nts_keys, nts_res)
        nodes63 == fort63 \in Range(ts_keys)
        data61 == fort61 \in Range(ts_keys)
        ts_sub1 == IF nodes63 THEN fix_dry_nodes(ts_sub0) ELSE ts_sub0
        ts_full1 == IF nodes63 THEN fix_dry_nodes(ts_full0) ELSE ts_full0
        ts_sub == IF data61 THEN fix_dry_data(ts_sub1) ELSE ts_sub1
        ts_full == IF data61 THEN fix_dry_data(ts_full1) ELSE ts_full1
        fixes == (IF nodes63 THEN <<<<"fix_dry_nodes">>>> ELSE <<>>)
                 \o (IF data61 THEN <<<<"set_station_bathymetry">>, <<"fix_dry_data">>>>
                     ELSE <<>>)
        looped == SelectSeq(ts_keys, LAMBDA k : ~SkipKey(k))
        pairs == [k \in Range(looped) |-> TsPair(ts_full, ts_sub, nodes, k)]
        ts_res == [k \in Range(looped) |-> Minus(pairs[k].full_data, pairs[k].sub_data)]
        tbad == FirstRaise(looped, ts_res)
        base == [NoCmp EXCEPT !.op = "compare_runSet", !.sub = s,
                              !.ts_keys = ts_keys, !.nts_keys = nts_keys]
    IN  IF ~sub2full_node[s].read
        THEN \* no attribute sub2full_node: AttributeError
             /\ cmp' = [base EXCEPT !.status = "raise"]
             /\ UNCHANGED files
        ELSE IF nbad <= Len(nts_keys)
        THEN /\ cmp' = [base EXCEPT !.status = "raise",
                                    !.trace = DiffTrace(nts_keys, nbad - 1)]
             /\ UNCHANGED files
        ELSE IF tbad <= Len(looped)
        THEN /\ cmp' = [base EXCEPT !.status = "raise",
                                    !.trunc = TruncOf(pairs, looped, tbad),
                                    !.trace = DiffTrace(nts_keys, Len(nts_keys)) \o fixes
                                              \o DiffTrace(looped, tbad - 1)]
             /\ UNCHANGED files
        ELSE /\ cmp' = [base EXCEPT !.status = "ok",
                                    !.ts_error = ts_res,
                                    !.nts_error = nts_res,
                                    !.mdict = Range(nts_keys) \cup Range(looped),
                                    !.trunc = TruncOf(pairs, looped, Len(looped)),
                                    !.trace = DiffTrace(nts_keys, Len(nts_keys)) \o fixes
                                              \o DiffTrace(looped, Len(looped))]
             \* sio.savemat(save_file, ...), save_file under self.path
             /\ files' = [files EXCEPT ![path[s]] = @ \cup {"compare_s2f_runSet.mat"}]

CompareRunSet(s, ts_names, nts_names) ==
    /\ compare_runSet(s, ts_names, nts_names)
    /\ UNCHANGED <<path, subdomains, fulldomain, flag, nspoolgs, py140, py141,
                   sub2full_node, sub2full_element, last, lastShape, runs>>

compare_to_fulldomain(s, ts_names, nts_names) ==
    LET nodes == fulldom_nodes(s)
        nts_keys == KeysOf(nts_names)
        ts_keys == KeysOf(ts_names)
        \* output.get_nts_sr / output.get_ts_sr on the two directories
        nts_sub == NtsBundle(runs.sub, runs.dry)
        nts_full == NtsBundle(runs.full, runs.dry)
        ts_sub == TsBundle(runs.sub, runs.dry)
        ts_full == TsBundle(runs.full, runs.dry)
        nts_pair == [k \in Range(nts_keys) |->
                       [full_data |-> IndexNodes(Lookup(nts_full, k), nodes),
                        sub_data |-> Lookup(nts_sub, k)]]
        nts_diff == [k \in Range(nts_keys) |->
                       Minus(nts_pair[k].full_data, nts_pair[k].sub_data)]
        nts_res == [k \in Range(nts_keys) |->
                      IF Stack(nts_pair[k].full_data, nts_pair[k].sub_data).ok
                      THEN nts_diff[k] ELSE Raised]
        nbad == FirstRaise(nts_keys, nts_res)
        pairs == [k \in Range(ts_keys) |-> TsPair(ts_full, ts_sub, nodes, k)]
        stacked == [k \in Range(ts_keys) |->
                      Stack(pairs[k].full_data, pairs[k].sub_data)]
        tbad == FirstRaise(ts_keys, stacked)
        \* ts_data[key][..., 0] and ts_data[key][..., 1]
        data_full0 == [k \in Range(ts_keys) |-> stacked[k].full]
        data_sub0 == [k \in Range(ts_keys) |-> stacked[k].sub]
        nodes63 == fort63 \in Range(ts_keys)
        data61 == fort61 \in Range(ts_keys)
        data_full1 == IF nodes63 THEN fix_dry_nodes(data_full0) ELSE data_full0
        data_sub1 == IF nodes63 THEN fix_dry_nodes(data_sub0) ELSE data_sub0
        data_full == IF data61 THEN fix_dry_data(data_full1) ELSE data_full1
        data_sub == IF data61 THEN fix_dry_data(data_sub1) ELSE data_sub1
        fixes == (IF nodes63 THEN <<<<"fix_dry_nodes">>>> ELSE <<>>)
                 \o (IF data61 THEN <<<<"fix_dry_data">>>> ELSE <<>>)
        ts_diff == [k \in Range(ts_keys) |-> Minus(data_full[k], data_sub[k])]
        \* "nts_error[key] = (ts_data[key][..., 0] - ts_data[key][..., 1])":
        \* the timeseries differences are stored in nts_error
        nts_error == [k \in Range(nts_keys) \cup Range(ts_keys) |->
                        IF k \in Range(ts_keys) THEN ts_diff[k] ELSE nts_diff[k]]
        ts_error == EmptyDict
        base == [NoCmp EXCEPT !.op = "compare_to_fulldomain", !.sub = s,
                              !.ts_keys = ts_keys, !.nts_keys = nts_keys]
    IN  IF ~sub2full_node[s].read
        THEN /\ cmp' = [base EXCEPT !.status = "raise"]
             /\ UNCHANGED files
        ELSE IF fulldomain[s] = NoDomain /\ Len(nts_names) + Len(ts_names) > 0
        THEN \* self.fulldomain.path of None: AttributeError
             /\ cmp' = [base EXCEPT !.status = "raise"]
             /\ UNCHANGED files
        ELSE IF nbad <= Len(nts_keys)
        THEN /\ cmp' = [base EXCEPT !.status = "raise",
                                    !.trace = DiffTrace(nts_keys, nbad - 1)]
             /\ UNCHANGED files
        ELSE IF tbad <= Len(ts_keys)
        THEN /\ cmp' = [base EXCEPT !.status = "raise",
                                    !.trunc = TruncOf(pairs, ts_keys, tbad),
                                    !.trace = DiffTrace(nts_keys, Len(nts_keys))]
             /\ UNCHANGED files
        ELSE /\ cmp' = [base EXCEPT !.status = "ok",
                                    !.ts_error = ts_error,
                                    !.nts_error = nts_error,
                                    !.time_obs = Range(ts_keys),
                                    !.ts_data = Range(ts_keys),
                                    !.nts_data = Range(nts_keys),
                                    !.mdict = DOMAIN nts_error \cup DOMAIN ts_error
                                              \cup {k \o <<"_time">> : k \in Range(ts_keys)},
                                    !.trunc = TruncOf(pairs, ts_keys, Len(ts_keys)),
                                    !.trace = DiffTrace(nts_keys, Len(nts_keys)) \o fixes
                                              \o DiffTrace(ts_keys, Len(ts_keys))]
             /\ files' = [files EXCEPT ![path[s]] = @ \cup {"compare_s2f.mat"}]

CompareToFulldomain(s, ts_names, nts_names) ==
    /\ compare_to_fulldomain(s, ts_names, nts_names)
    /\ UNCHANGED <<path, subdomains, fulldomain, flag, nspoolgs, py140, py141,
                   sub2full_node, sub2full_element, last, lastShape, runs>>

(***************************************************************************)
(* The comparisons, over every pair of runs and every node map within the  *)
(* bounds                                                                  *)
(***************************************************************************)
FullRuns == [nr : {MaxSubNodes, MaxFullNodes}, nc : 1..MaxObs, off : {0}]
SubRuns(n) == [nr : {n}, nc : 1..MaxObs, off : {1}]
\* node maps of the local ids 1..n, 1 <= n <= MaxSubNodes, to any id from 1
\* to one past the full domain's nodes
NodeMaps == UNION {[1..n -> 1..(MaxFullNodes + 1)] : n \in 1..MaxSubNodes}

\* the (timeseries names, non-timeseries names) a caller asks for
Requests ==
    {<<Names(<<Name(fort63)>>), Names(<<>>)>>,
     <<Names(<<Name(fort61), Name(fort63)>>), Names(<<Name(maxele63)>>)>>,
     <<Names(<<Name(fort64), Name(fort62)>>), Names(<<>>)>>,
     <<Names(<<>>), Names(<<Name(maxele63)>>)>>}

InitCompare ==
    /\ path = [d \in Subs \cup Fulls |->
                 IF d \in Fulls THEN "full" ELSE IF d = "s1" THEN "subA" ELSE "subB"]
    /\ subdomains = [f \in Fulls |-> <<"s1">>]
    /\ fulldomain = [s \in Subs |-> IF s = "s1" THEN "F1" ELSE NoDomain]
    /\ flag = [s \in Subs |-> NoFlag]
    /\ nspoolgs = [s \in Subs |-> 0]
    /\ files = [d \in Paths |-> {}]
    /\ py140 = [d \in Paths |-> <<>>]
    /\ py141 = [d \in Paths |-> <<>>]
    /\ sub2full_element = [s \in Subs |-> NoMap]
    /\ last = NoLast
    /\ lastShape = [d \in Paths |-> "none"]
    /\ \E m \in NodeMaps :
         /\ sub2full_node = [s \in Subs |->
                               IF s = "s1" THEN [read |-> TRUE, map |-> m] ELSE NoMap]
         /\ \E f \in FullRuns, dry \in BOOLEAN :
              \E sr \in SubRuns(Cardinality(DOMAIN m)) \cup {f} :
                 runs = [full |-> f, sub |-> sr, dry |-> dry]
    /\ cmp = NoCmp

\* one comparison of the pair of runs per behaviour
RunSetStep ==
    /\ cmp.op = "none"
    /\ \E s \in Subs, r \in Requests \cup {<<NoNames, NoNames>>} :
          CompareRunSet(s, r[1], r[2])

DiskStep ==
    /\ cmp.op = "none"
    /\ \E s \in Subs, r \in Requests :
          CompareToFulldomain(s, r[1].names, r[2].names)

NextCompare == RunSetStep \/ DiskStep

SpecCompare == InitCompare /\ [][NextCompare]_vars

(***************************************************************************)
(* Claims about the comparison                                             *)
(***************************************************************************)
Differenced(k) == Tag("diff", k) \in Range(cmp.trace)
IsZero(A) == \A i \in 1..A.nr : \A j \in 1..A.nc :
                \A d \in 1..Len(A.a[i][j]) : A.a[i][j][d] = 0
HasShape(A, nr, nc) == A.ok /\ A.nr = nr /\ A.nc = nc
Identical == runs.sub = runs.full
IdentityMap == sub2full_node["s1"].map = [i \in 1..runs.full.nr |-> i]
Stations == {fort61, fort62}

\* C1 (as claimed): when compare_to_fulldomain returns, its ts_error holds
\* every requested timeseries key, and the value has the subdomain array's
\* shape and is the full-domain array at rows (mapped id - 1) minus the
\* subdomain array.
C1_TsErrorOfDisk ==
    (cmp.op = "compare_to_fulldomain" /\ cmp.status = "ok") =>
        \A k \in Range(cmp.ts_keys) :
            /\ k \in DOMAIN cmp.ts_error
            /\ HasShape(cmp.ts_error[k], runs.sub.nr, runs.sub.nc)
            /\ cmp.ts_error[k] =
                 Minus(IndexNodesObs(TsArray(runs.full, runs.dry, k),
                                     [i \in 1..Len(DictValues(sub2full_node[cmp.sub].map)) |->
                                         DictValues(sub2full_node[cmp.sub].map)[i] - 1],
                                     runs.full.nc),
                       TsArray(runs.sub, runs.dry, k))

\* C2 (as claimed): compare_runSet on identical subdomain and full-domain
\* arrays returns, for every requested key and every node map, an all-zero
\* entry of the shape of the input.
C2_IdenticalGivesZero ==
    (cmp.op = "compare_runSet" /\ cmp.sub = "s1" /\ Identical) =>
        /\ cmp.status = "ok"
        /\ \A k \in Range(cmp.ts_keys) :
              /\ k \in DOMAIN cmp.ts_error
              /\ HasShape(cmp.ts_error[k], runs.sub.nr, runs.sub.nc)
              /\ IsZero(cmp.ts_error[k])
        /\ \A k \in Range(cmp.nts_keys) :
              /\ k \in DOMAIN cmp.nts_error
              /\ HasShape(cmp.nts_error[k], runs.sub.nr, 1)
              /\ IsZero(cmp.nts_error[k])

\* C2 (amended): compare_runSet on identical arrays, under the node map that
\* sends every row i of the array to full-domain id i, returns an all-zero
\* entry of the input's shape for every requested key other than fort61 and
\* fort62, and no entry for fort61 and fort62.
C2_IdenticalIdentityGivesZero ==
    (cmp.op = "compare_runSet" /\ cmp.sub = "s1" /\ Identical /\ IdentityMap) =>
        /\ cmp.status = "ok"
        /\ \A k \in Range(cmp.ts_keys) :
              IF k \in Stations
              THEN k \notin DOMAIN cmp.ts_error
              ELSE /\ k \in DOMAIN cmp.ts_error
                   /\ HasShape(cmp.ts_error[k], runs.sub.nr, runs.sub.nc)
                   /\ IsZero(cmp.ts_error[k])
        /\ \A k \in Range(cmp.nts_keys) :
              /\ k \in DOMAIN cmp.nts_error
              /\ HasShape(cmp.nts_error[k], runs.sub.nr, 1)
              /\ IsZero(cmp.nts_error[k])

\* C2 witness: such a comparison of identical runs with a dry node returned,
\* with fort61 and fort63 requested and maxele63 compared
C2_Witness ==
    /\ cmp.op = "compare_runSet" /\ cmp.sub = "s1" /\ cmp.status = "ok"
    /\ Identical /\ IdentityMap /\ runs.dry
    /\ fort61 \in Range(cmp.ts_keys)
    /\ fort63 \in DOMAIN cmp.ts_error
    /\ maxele63 \in DOMAIN cmp.nts_error

\* C3 (as claimed): in both comparisons, for every timeseries key, the
\* full-domain array cut to the subdomain's observation count is as long on
\* the observation axis as the subdomain array.
C3_TruncatedLengthsAgree ==
    \A k \in DOMAIN cmp.trunc : cmp.trunc[k][1] = cmp.trunc[k][2]

\* C4 (as claimed): compare_to_fulldomain skips fort61 and fort62: it
\* differences nothing and returns no entry for them, and processes every
\* other requested key.
C4_DiskSkipsStations ==
    (cmp.op = "compare_to_fulldomain" /\ cmp.status = "ok") =>
        \A k \in Range(cmp.ts_keys) :
            IF k \in Stations
            THEN /\ ~Differenced(k)
                 /\ k \notin DOMAIN cmp.ts_error
                 /\ k \notin DOMAIN cmp.nts_error
            ELSE Differenced(k)

\* C4 (amended): it is compare_runSet that skips fort61 and fort62 in its
\* timeseries loop (nothing differenced, no entry) and gives every other
\* requested key an entry of ts_error; compare_to_fulldomain skips no key:
\* it differences every requested timeseries key, fort61 and fort62
\* included, and returns an entry for it (in nts_error).
C4_RunSetSkipsStations ==
    /\ (cmp.op = "compare_runSet" /\ cmp.status = "ok") =>
          \A k \in Range(cmp.ts_keys) :
              IF k \in Stations
              THEN ~Differenced(k) /\ k \notin DOMAIN cmp.ts_error
              ELSE Differenced(k) /\ k \in DOMAIN cmp.ts_error
    /\ (cmp.op = "compare_to_fulldomain" /\ cmp.status = "ok") =>
          \A k \in Range(cmp.ts_keys) :
              Differenced(k) /\ k \in DOMAIN cmp.nts_error

\* C4 witness: compare_runSet returned with fort61 requested and skipped
\* while fort63 was compared
C4_Witness ==
    /\ cmp.op = "compare_runSet" /\ cmp.status = "ok"
    /\ fort61 \in Range(cmp.ts_keys)
    /\ fort61 \notin DOMAIN cmp.ts_error
    /\ fort63 \in DOMAIN cmp.ts_error

(***************************************************************************)
(* The subdomain to full-domain maps, read from py.140 and py.141.         *)
(* A file is its sequence of lines, a line the sequence of integers that   *)
(* np.fromstring(line, dtype=int, sep=' ') finds in it; the first line is  *)
(* the header.                                                             *)
(***************************************************************************)
Header == <<>>

\* mutant of PutLine: the two columns taken in the other order
PutLine_swapped(d, line) ==
    [x \in DOMAIN d \cup {line[2]} |-> IF x = line[2] THEN line[1] ELSE d[x]]

\* k, v = np.fromstring(...); self.sub2full_node[k] = v
PutLine(d, line) ==
    [x \in DOMAIN d \cup {line[1]} |-> IF x = line[1] THEN line[2] ELSE d[x]]

\* "for line in fid": the lines from the i-th on put into d; unpacking a
\* line that does not hold exactly two integers raises ValueError and
\* leaves the entries put so far
RECURSIVE ReadLines(_, _, _)
ReadLines(lines, i, d) ==
    IF i > Len(lines) THEN [ok |-> TRUE, map |-> d]
    ELSE IF Len(lines[i]) # 2 THEN [ok |-> FALSE, map |-> d]
    ELSE ReadLines(lines, i + 1, PutLine(d, lines[i]))

\* the dict a reader builds of the file `name` of a directory holding the
\* files present: open() raises IOError when the file is missing, after the
\* dict was emptied; fid.readline() skips the header
ReadMapFile(present, name, content) ==
    IF name \notin present THEN [ok |-> FALSE, map |-> EmptyDict]
    ELSE ReadLines(content, 2, EmptyDict)

Outcome(ok) == IF ok THEN "None" ELSE "raise"

read_py_node(s) ==
    LET r == ReadMapFile(files[path[s]], "py.140", py140[path[s]])
    IN  /\ sub2full_node' = [sub2full_node EXCEPT ![s] = [read |-> TRUE, map |-> r.map]]
        /\ last' = Did("read_py_node", s, Outcome(r.ok), FALSE, 0, <<>>)
        /\ UNCHANGED sub2full_element

read_py_ele(s) ==
    LET r == ReadMapFile(files[path[s]], "py.141", py141[path[s]])
    IN  /\ sub2full_element' = [sub2full_element EXCEPT ![s] = [read |-> TRUE, map |-> r.map]]
        /\ last' = Did("read_py_ele", s, Outcome(r.ok), FALSE, 0, <<>>)
        /\ UNCHANGED sub2full_node

\* the maps after update_sub2full_map in a directory holding the files
\* present: read_py_node, then, unless it raised, read_py_ele
MapsAfterUpdate(s, present, node_file, ele_file) ==
    LET rn == ReadMapFile(present, "py.140", node_file)
        re == ReadMapFile(present, "py.141", ele_file)
    IN  [ok |-> rn.ok /\ re.ok,
         node |-> [read |-> TRUE, map |-> rn.map],
         element |-> IF rn.ok THEN [read |-> TRUE, map |-> re.map]
                     ELSE sub2full_element[s]]

update_sub2full_map(s) ==
    LET m == MapsAfterUpdate(s, files[path[s]], py140[path[s]], py141[path[s]])
    IN  /\ sub2full_node' = [sub2full_node EXCEPT ![s] = m.node]
        /\ sub2full_element' = [sub2full_element EXCEPT ![s] = m.element]
        /\ last' = Did("update_sub2full_map", s, Outcome(m.ok), FALSE, 0, <<>>)

mapFrame == <<path, subdomains, fulldomain, flag, nspoolgs, files, py140, py141,
              lastShape, runs, cmp>>
ReadPyNode == \E s \in Subs : read_py_node(s) /\ UNCHANGED mapFrame
ReadPyEle == \E s \in Subs : read_py_ele(s) /\ UNCHANGED mapFrame
UpdateSub2fullMap == \E s \in Subs : update_sub2full_map(s) /\ UNCHANGED mapFrame

\* domain.node_num of the full domain
node_num(f) == MaxFullNodes

\* the lines a mapping file may hold: 'local global' pairs, and lines that
\* do not hold two integers
MapLines ==
    {<<k, v>> : k \in 1..MaxSubNodes, v \in 0..(MaxFullNodes + 1)}
    \cup {<<1>>, <<1, 1, 1>>}
RECURSIVE SeqsUpTo(_, _)
SeqsUpTo(S, n) ==
    IF n = 0 THEN {<<>>}
    ELSE SeqsUpTo(S, n - 1)
         \cup {Append(q, x) : q \in {p \in SeqsUpTo(S, n - 1) : Len(p) = n - 1}, x \in S}
MapFiles == {<<Header>> \o body : body \in SeqsUpTo(MapLines, MaxLines)}
NoRuns == [full |-> [nr |-> 1, nc |-> 1, off |-> 0],
           sub |-> [nr |-> 1, nc |-> 1, off |-> 0], dry |-> FALSE]

\* subdomain s1 in a directory with both mapping files, s2 in one without
InitMap ==
    /\ path = [d \in Subs \cup Fulls |->
                 IF d \in Fulls THEN "full" ELSE IF d = "s1" THEN "subA" ELSE "subB"]
    /\ subdomains = [f \in Fulls |-> <<"s1", "s2">>]
    /\ fulldomain = [s \in Subs |-> "F1"]
    /\ flag = [s \in Subs |-> NoFlag]
    /\ nspoolgs = [s \in Subs |-> 0]
    /\ files = [d \in Paths |-> IF d = "subA" THEN {"py.140", "py.141"} ELSE {}]
    /\ \E c \in MapFiles : py140 = [d \in Paths |-> IF d = "subA" THEN c ELSE <<>>]
    /\ \E c \in {<<Header, <<1, 1>>>>, <<Header, <<1>>>>} :
          py141 = [d \in Paths |-> IF d = "subA" THEN c ELSE <<>>]
    /\ sub2full_node = [s \in Subs |-> NoMap]
    /\ sub2full_element = [s \in Subs |-> NoMap]
    /\ last = NoLast
    /\ lastShape = [d \in Paths |-> "none"]
    /\ runs = NoRuns
    /\ cmp = NoCmp

NextMap == ReadPyNode \/ ReadPyEle \/ UpdateSub2fullMap

SpecMap == InitMap /\ [][NextMap]_vars

(***************************************************************************)
(* Claims about the node map                                               *)
(***************************************************************************)
DataLines(content) == SubSeq(content, 2, Len(content))
WellFormed(content) ==
    /\ Len(content) >= 1
    /\ \A i \in 2..Len(content) : Len(content[i]) = 2
\* s read its node map from a well-formed py.140
ReadWellFormed(s) ==
    /\ sub2full_node[s].read
    /\ "py.140" \in files[path[s]]
    /\ WellFormed(py140[path[s]])
LocalIds(content) == {content[i][1] : i \in 2..Len(content)}

\* C9 (as claimed): after read_py_node / update_sub2full_map on a well-formed
\* two-column mapping file every local id of a data line is a key of
\* sub2full_node, and every value is a positive integer no larger than the
\* full domain's node count.
C9_MapWithinFullDomain ==
    \A s \in Subs : ReadWellFormed(s) =>
        /\ DOMAIN sub2full_node[s].map = LocalIds(py140[path[s]])
        /\ \A k \in DOMAIN sub2full_node[s].map :
              /\ sub2full_node[s].map[k] >= 1
              /\ sub2full_node[s].map[k] <= node_num(fulldomain[s])

\* C9 (amended): after read_py_node / update_sub2full_map on a well-formed
\* two-column mapping file the keys of sub2full_node are exactly the local
\* ids of the data lines, and the value of a key is the global id written on
\* the last data line with that local id, whatever that number is.
C9_MapIsFileContent ==
    \A s \in Subs : ReadWellFormed(s) =>
        LET content == py140[path[s]]
        IN  /\ DOMAIN sub2full_node[s].map = LocalIds(content)
            /\ \A k \in DOMAIN sub2full_node[s].map :
                  \E i \in 2..Len(content) :
                      /\ content[i] = <<k, sub2full_node[s].map[k]>>
                      /\ \A j \in (i + 1)..Len(content) : content[j][1] # k

\* C9 witness: read_py_node read a file of two data lines with different
\* local ids, one of them mapped to an id past the full domain's nodes
C9_Witness ==
    /\ last.op = "read_py_node" /\ last.ret = "None"
    /\ ReadWellFormed(last.obj)
    /\ Cardinality(DOMAIN sub2full_node[last.obj].map) = 2
    /\ \E k \in DOMAIN sub2full_node[last.obj].map :
          sub2full_node[last.obj].map[k] > node_num(fulldomain[last.obj])

(***************************************************************************)
(* The full domain and its subdomains                                      *)
(***************************************************************************)
\* what genbcs prints and returns when the full-domain output is missing
Sentinel == "Output files from the fulldomain run do not exist"

\* the files of the model that glob 'fort.06*' and glob 'PE*/fort.065' match
Fort06Names == {"fort.063", "fort.065"}
PE065Names == {"PE0000/fort.065"}

\* mutant of check_fulldomain: one of the two kinds of output is enough
check_fulldomain_either(f) ==
    LET fort06 == files[path[f]] \cap Fort06Names
        fort065 == files[path[f]] \cap PE065Names
    IN  Cardinality(fort06) > 0 \/ Cardinality(fort065) > 0

\* fulldomain.check_fulldomain
check_fulldomain(f) ==
    LET fort06 == files[path[f]] \cap Fort06Names
        fort065 == files[path[f]] \cap PE065Names
    IN  Cardinality(fort06) > 0 /\ Cardinality(fort065) > 0

\* check_fulldomain() of f when the directories hold the files `now`
check_fulldomain_in(f, now) ==
    Cardinality(now[path[f]] \cap Fort06Names) > 0
    /\ Cardinality(now[path[f]] \cap PE065Names) > 0

\* subdomain.check
check(s) ==
    LET fort019 == files[path[s]] \cap {"fort.019"}
    IN  Cardinality(fort019) > 0

Bool(b) == IF b THEN "True" ELSE "False"

\* fulldomain.check_subdomains: the loop returns in its first pass, on
\* either branch; with no subdomains the method falls off its end
RECURSIVE check_subdomains_from(_, _)
check_subdomains_from(f, i) ==
    IF i > Len(subdomains[f]) THEN "None"
    ELSE IF ~check(subdomains[f][i]) THEN "False"
    ELSE "True"
check_subdomains(f) == check_subdomains_from(f, 1)

\* mutant of add_subdomain: a subdomain already listed is not listed again
add_subdomain_once(f, s) ==
    /\ subdomains' = [subdomains EXCEPT
                        ![f] = IF s \in Range(@) THEN @ ELSE Append(@, s)]
    /\ fulldomain' = [fulldomain EXCEPT ![s] = f]
    /\ last' = Did("add_subdomain", f, "None", FALSE, 1, <<>>)

\* fulldomain.add_subdomain
add_subdomain(f, s) ==
    /\ subdomains' = [subdomains EXCEPT ![f] = Append(@, s)]
    /\ fulldomain' = [fulldomain EXCEPT ![s] = f]
    /\ last' = Did("add_subdomain", f, "None", FALSE, 1, <<>>)

\* mutant of add_subdomains: the list is extended, no back-reference is set
add_subdomains_listOnly(f, list) ==
    /\ subdomains' = [subdomains EXCEPT ![f] = @ \o list]
    /\ last' = Did("add_subdomains", f, "None", FALSE, Len(list), <<>>)
    /\ UNCHANGED fulldomain

\* fulldomain.add_subdomains
add_subdomains(f, list) ==
    /\ subdomains' = [subdomains EXCEPT ![f] = @ \o list]
    /\ fulldomain' = [s \in Subs |-> IF s \in Range(list) THEN f ELSE fulldomain[s]]
    /\ last' = Did("add_subdomains", f, "None", FALSE, Len(list), <<>>)

\* fulldomain.update_subdomains
update_subdomains(f) ==
    /\ fulldomain' = [s \in Subs |->
                        IF s \in Range(subdomains[f]) THEN f ELSE fulldomain[s]]
    /\ last' = Did("update_subdomains", f, "None", FALSE, 0, <<>>)
    /\ UNCHANGED subdomains

\* mutant of set_fulldomain: the full domain is not told
set_fulldomain_only(s, f) ==
    /\ fulldomain' = [fulldomain EXCEPT ![s] = f]
    /\ last' = Did("set_fulldomain", s, "None", FALSE, 0, <<>>)
    /\ UNCHANGED subdomains

\* subdomain.set_fulldomain
set_fulldomain(s, f) ==
    /\ fulldomain' = [fulldomain EXCEPT ![s] = f]
    /\ subdomains' = [subdomains EXCEPT ![f] = Append(@, s)]
    /\ last' = Did("set_fulldomain", s, "None", FALSE, 0, <<>>)

\* the command lines of gensub: "python "+script_dir+"/gensub.py "+
\* fulldomain.path+"/fort.14 "+str(self.flag)+" fort.14 ", with the fort.13
\* pair when the full domain has a fort.13
GensubCmd == "py/gensub.py fort.14"
GensubCmd13 == "py/gensub.py fort.14 fort.13"

\* the shape file gensub.py reads for a flag
ShapeOf(fl) == IF fl = 1 THEN {"shape.c14"} ELSE IF fl = 0 THEN {"shape.e14"} ELSE {}

\* gensub.py cuts the subdomain out of the full mesh when the shape file of
\* its flag argument is in the directory, and writes nothing otherwise
GensubOutput(e) ==
    IF ShapeOf(e.n) # {} /\ ShapeOf(e.n) \subseteq e.present
    THEN {"fort.14", "fort.015", "py.140", "py.141", "bv.nodes"}
         \cup (IF e.what = GensubCmd13 THEN {"fort.13"} ELSE {})
    ELSE {}

\* "subprocess.call('./adcpost < in.postsub > post_o.txt', ...)"; the n of
\* its event is the number of global output files ADCPOST assembles from
\* the per-processor ones
AdcpostCmd == "./adcpost < in.postsub > post_o.txt"

\* the files an external program leaves in its working directory:
\* genfull.py writes the control file fort.015 of the full domain, genbcs.py
\* the boundary conditions fort.019; python started on the script directory
\* alone runs no generator
ProgramOutput(e) ==
    IF e.what = "py/genfull.py" THEN {"fort.015"}
    ELSE IF e.what = "py/genbcs.py" THEN {"fort.019"}
    ELSE IF e.what = AdcpostCmd
    THEN {"post_o.txt"} \cup (IF e.n > 0 THEN {"fort.063"} ELSE {})
    ELSE IF e.what \in {GensubCmd, GensubCmd13} THEN GensubOutput(e)
    ELSE {}

\* "with open(os.path.join(self.path, 'genfull.in'), 'w') as fid"
GenfullWrite(f) == Written(path[f], "genfull.in")
\* "subprocess.call(command, shell=True, cwd=self.path)" with
\* command = "python "+self.script_dir+" -a ..." for no subdomains and
\* "python "+self.script_dir+"/genfull.py -s ... "+str(len(subdomains))
GenfullCall(f, n) ==
    Called(path[f], IF n = 0 THEN "py" ELSE "py/genfull.py", n,
           files[path[f]] \cup {"genfull.in"})

\* mutant of GenfullPlan: the guard of genbcs put on genfull
GenfullPlan_checked(f, subs) ==
    IF check_fulldomain(f)
    THEN [ret |-> "command", events |-> <<GenfullWrite(f), GenfullCall(f, Len(subs))>>]
    ELSE [ret |-> Sentinel, events |-> <<>>]

\* mutant of GenfullPlan: the generator run once for each subdomain
GenfullPlan_perSubdomain(f, subs) ==
    [ret |-> "command",
     events |-> <<GenfullWrite(f)>>
                \o [i \in 1..(IF Len(subs) = 0 THEN 1 ELSE Len(subs)) |->
                       GenfullCall(f, Len(subs))]]

\* what fulldomain.genfull does for the list subs: it writes genfull.in,
\* runs one command and returns the command
GenfullPlan(f, subs) ==
    [ret |-> "command", events |-> <<GenfullWrite(f), GenfullCall(f, Len(subs))>>]

\* the files of a directory after the events of a call
RECURSIVE FilesAfter(_, _, _, _)
FilesAfter(dir, present, events, i) ==
    IF i > Len(events) THEN present
    ELSE LET e == events[i]
             now == IF e.dir # dir THEN present
                    ELSE IF e.kind = "write" THEN present \cup {e.what}
                    ELSE IF e.kind = "remove" THEN present \ {e.what}
                    ELSE present \cup ProgramOutput(e)
         IN  FilesAfter(dir, now, events, i + 1)

\* fulldomain.genfull(noutgs, nspoolgs, subdomains); arg.given is false for
\* subdomains=None
genfull(op, obj, f, nspool, arg) ==
    LET subs == IF arg.given THEN arg.names ELSE subdomains[f]
        plan == GenfullPlan(f, subs)
    IN  /\ files' = [d \in Paths |-> FilesAfter(d, files[d], plan.events, 1)]
        \* "subdomain.nspoolgs = nspoolgs", while genfull.in is written
        /\ nspoolgs' = [s \in Subs |->
                          IF s \in Range(subs) /\ plan.events # <<>> THEN nspool
                          ELSE nspoolgs[s]]
        /\ last' = Did(op, obj, plan.ret, check_fulldomain(f), Len(subs), plan.events)

\* subdomain.genfull: self.fulldomain.genfull(noutgs, nspoolgs, [self])
sub_genfull(s, nspool) ==
    IF fulldomain[s] = NoDomain
    THEN /\ last' = Did("subdomain.genfull", s, "raise", FALSE, 0, <<>>)
         /\ UNCHANGED <<files, nspoolgs>>
    ELSE genfull("subdomain.genfull", s, fulldomain[s], nspool, Names(<<s>>))

\* mutant of GenbcsPlan: the generator run without the test of the output
GenbcsPlan_unchecked(s, now) ==
    IF fulldomain[s] = NoDomain THEN [ret |-> "raise", events |-> <<>>]
    ELSE [ret |-> "command",
          events |-> <<Called(path[s], "py/genbcs.py", 0, now[path[s]])>>]

\* what subdomain.genbcs does when the directories hold the files `now`:
\* self.fulldomain.check_fulldomain() raises AttributeError without a full
\* domain; the command is run and returned if the output is there, the
\* message printed and returned if not
GenbcsPlan(s, now) ==
    IF fulldomain[s] = NoDomain THEN [ret |-> "raise", events |-> <<>>]
    ELSE IF check_fulldomain_in(fulldomain[s], now)
    THEN [ret |-> "command",
          events |-> <<Called(path[s], "py/genbcs.py", 0, now[path[s]])>>]
    ELSE [ret |-> Sentinel, events |-> <<>>]

\* subdomain.genbcs
genbcs(s) ==
    LET plan == GenbcsPlan(s, files)
    IN  /\ files' = [d \in Paths |-> FilesAfter(d, files[d], plan.events, 1)]
        /\ last' = Did("genbcs", s, plan.ret,
                       fulldomain[s] # NoDomain /\ check_fulldomain(fulldomain[s]),
                       0, plan.events)

\* "for f, d, ns, h, subdomain in zip(...): commands.append(subdomain.genbcs(...))"
\* from the i-th subdomain on, after the events done and n commands
RECURSIVE GenbcsEach(_, _, _, _)
GenbcsEach(f, i, done, n) ==
    IF i > Len(subdomains[f]) THEN [ret |-> "list", events |-> done, n |-> n]
    ELSE LET now == [d \in Paths |-> FilesAfter(d, files[d], done, 1)]
             plan == GenbcsPlan(subdomains[f][i], now)
         IN  IF plan.ret = "raise" THEN [ret |-> "raise", events |-> done, n |-> n]
             ELSE GenbcsEach(f, i + 1, done \o plan.events, n + 1)

\* fulldomain.genbcss(L=L) with the lists of arguments left to their
\* defaults; ADCPOST assembles `merged` global output files
genbcss(f, L, merged) ==
    LET dir == path[f]
        post == IF L THEN <<Written(dir, "in.postsub"),
                            Called(dir, AdcpostCmd, merged, files[dir] \cup {"in.postsub"})>>
                ELSE <<>>
        now == [d \in Paths |-> FilesAfter(d, files[d], post, 1)]
        r == IF check_fulldomain_in(f, now) THEN GenbcsEach(f, 1, post, 0)
             ELSE [ret |-> "list", events |-> post, n |-> 0]
    IN  /\ files' = [d \in Paths |-> FilesAfter(d, files[d], r.events, 1)]
        /\ last' = Did("genbcss", f, r.ret, check_fulldomain(f), r.n, r.events)

\* the lists of subdomains a caller can pass
SubLists == SeqsUpTo(Subs, MaxSubList)

\* the variables no full-domain operation touches
domainFrame == <<path, flag, py140, py141, sub2full_node, sub2full_element,
                 lastShape, runs, cmp>>

AddSubdomain ==
    \E f \in Fulls, s \in Subs :
       /\ Len(subdomains[f]) < MaxSubList
       /\ add_subdomain(f, s)
       /\ UNCHANGED <<domainFrame, files, nspoolgs>>
AddSubdomains ==
    \E f \in Fulls, list \in SubLists :
       /\ Len(subdomains[f]) + Len(list) <= MaxSubList
       /\ add_subdomains(f, list)
       /\ UNCHANGED <<domainFrame, files, nspoolgs>>
UpdateSubdomains ==
    \E f \in Fulls : update_subdomains(f) /\ UNCHANGED <<domainFrame, files, nspoolgs>>
SetFulldomain ==
    \E s \in Subs, f \in Fulls :
       /\ Len(subdomains[f]) < MaxSubList
       /\ set_fulldomain(s, f)
       /\ UNCHANGED <<domainFrame, files, nspoolgs>>
Genfull ==
    \E f \in Fulls, arg \in {NoNames} \cup {Names(l) : l \in SeqsUpTo(Subs, MaxNames)} :
       /\ genfull("fulldomain.genfull", f, f, 1, arg)
       /\ UNCHANGED <<domainFrame, subdomains, fulldomain>>
SubGenfull ==
    \E s \in Subs : sub_genfull(s, 1) /\ UNCHANGED <<domainFrame, subdomains, fulldomain>>
Genbcs ==
    \E s \in Subs : genbcs(s) /\ UNCHANGED <<domainFrame, subdomains, fulldomain, nspoolgs>>
Genbcss ==
    \E f \in Fulls, L \in BOOLEAN, merged \in 0..1 :
       /\ L \/ merged = 0
       /\ genbcss(f, L, merged)
       /\ UNCHANGED <<domainFrame, subdomains, fulldomain, nspoolgs>>
CheckFulldomain ==
    \E f \in Fulls :
       /\ last' = Did("check_fulldomain", f, Bool(check_fulldomain(f)),
                      check_fulldomain(f), 0, <<>>)
       /\ UNCHANGED <<domainFrame, subdomains, fulldomain, files, nspoolgs>>
\* subdomain.check_fulldomain: self.fulldomain.check_fulldomain()
SubCheckFulldomain ==
    \E s \in Subs :
       /\ last' = IF fulldomain[s] = NoDomain
                  THEN Did("subdomain.check_fulldomain", s, "raise", FALSE, 0, <<>>)
                  ELSE Did("subdomain.check_fulldomain", s,
                           Bool(check_fulldomain(fulldomain[s])),
                           check_fulldomain(fulldomain[s]), 0, <<>>)
       /\ UNCHANGED <<domainFrame, subdomains, fulldomain, files, nspoolgs>>
Check ==
    \E s \in Subs :
       /\ last' = Did("check", s, Bool(check(s)), FALSE, 0, <<>>)
       /\ UNCHANGED <<domainFrame, subdomains, fulldomain, files, nspoolgs>>
CheckSubdomains ==
    \E f \in Fulls :
       /\ last' = Did("check_subdomains", f, check_subdomains(f), FALSE,
                      Len(subdomains[f]), <<>>)
       /\ UNCHANGED <<domainFrame, subdomains, fulldomain, files, nspoolgs>>

\* the full-domain ADCIRC run leaves its global and per-processor output in
\* the full-domain directory
RunFulldomain ==
    \E f \in Fulls, out \in (SUBSET (Fort06Names \cup PE065Names)) \ {{}} :
       /\ files' = [files EXCEPT ![path[f]] = @ \cup out]
       /\ last' = Did("run", f, "None", check_fulldomain(f), 0, <<>>)
       /\ UNCHANGED <<domainFrame, subdomains, fulldomain, nspoolgs>>

\* output of the full-domain run is deleted
RemoveOutput ==
    \E f \in Fulls : \E name \in files[path[f]] \cap (Fort06Names \cup PE065Names) :
       /\ files' = [files EXCEPT ![path[f]] = @ \ {name}]
       /\ last' = Did("remove", f, "None", check_fulldomain(f), 0, <<>>)
       /\ UNCHANGED <<domainFrame, subdomains, fulldomain, nspoolgs>>

\* the state after fulldomain(path) and subdomain(path) were constructed
Init ==
    /\ path = [d \in Subs \cup Fulls |->
                 IF d \in Fulls THEN "full" ELSE IF d = "s1" THEN "subA" ELSE "subB"]
    /\ subdomains = [f \in Fulls |-> <<>>]
    /\ fulldomain = [s \in Subs |-> NoDomain]
    /\ flag = [s \in Subs |-> NoFlag]
    /\ nspoolgs = [s \in Subs |-> 0]
    /\ files = [d \in Paths |-> {}]
    /\ py140 = [d \in Paths |-> <<>>]
    /\ py141 = [d \in Paths |-> <<>>]
    /\ sub2full_node = [s \in Subs |-> NoMap]
    /\ sub2full_element = [s \in Subs |-> NoMap]
    /\ last = NoLast
    /\ lastShape = [d \in Paths |-> "none"]
    /\ runs = NoRuns
    /\ cmp = NoCmp

Next ==
    \/ AddSubdomain
    \/ AddSubdomains
    \/ UpdateSubdomains
    \/ SetFulldomain
    \/ Genfull
    \/ SubGenfull
    \/ Genbcs
    \/ Genbcss
    \/ CheckFulldomain
    \/ SubCheckFulldomain
    \/ Check
    \/ CheckSubdomains
    \/ RunFulldomain

Spec == Init /\ [][Next]_vars

\* the files of the full-domain directory come and go between the checks
NextFiles ==
    \/ AddSubdomain
    \/ Genfull
    \/ Genbcss
    \/ RunFulldomain
    \/ RemoveOutput
    \/ CheckFulldomain
    \/ SubCheckFulldomain

SpecFiles == Init /\ [][NextFiles]_vars

(***************************************************************************)
(* Claims about the full domain                                            *)
(***************************************************************************)
\* the last call was fulldomain.genfull, directly or from subdomain.genfull
GenfullRan == last.op \in {"fulldomain.genfull", "subdomain.genfull"} /\ last.ret # "raise"

\* C5 as stated: fulldomain.genfull called while check_fulldomain() is false
\* runs no external generator and returns the sentinel message
C5_GenfullFailsSilently ==
    (GenfullRan /\ ~last.ready) => (Len(Calls(last)) = 0 /\ last.ret = Sentinel)

\* C5 amended: fulldomain.genfull does not consult check_fulldomain(); called
\* while it is false it still writes genfull.in, runs the generator command
\* once and returns the command line, exactly as when it is true
C5_GenfullIgnoresCheck ==
    GenfullRan =>
       /\ last.ret = "command"
       /\ Len(Calls(last)) = 1
       /\ last.events[1] = Written(last.events[1].dir, "genfull.in")
       /\ "genfull.in" \in files[last.events[1].dir]

C5_Witness == GenfullRan /\ ~last.ready /\ last.ret = "command" /\ Len(Calls(last)) = 1

\* the events of the last call are one write of genfull.in followed by calls
WriteThenCalls ==
    /\ Len(last.events) >= 2
    /\ last.events[1].kind = "write" /\ last.events[1].what = "genfull.in"
    /\ \A i \in 2..Len(last.events) :
          /\ last.events[i].kind = "call"
          /\ "genfull.in" \in last.events[i].present

C10_CheckSubdomainsAll ==
    last.op = "check_subdomains" =>
       LET owned == Range(subdomains[last.obj])
       IN  /\ (\E s \in owned : ~check(s)) => last.ret = "False"
           /\ last.ret = "True" => \A s \in owned : check(s)

(***************************************************************************)
(* The setup of a subdomain                                                *)
(***************************************************************************)
\* subdomain.circle: writes shape.c14 and sets the flag to 1
circle(s) ==
    LET events == <<Written(path[s], "shape.c14")>>
    IN  /\ files' = [d \in Paths |-> FilesAfter(d, files[d], events, 1)]
        /\ flag' = [flag EXCEPT ![s] = 1]
        /\ lastShape' = [lastShape EXCEPT ![path[s]] = "circle"]
        /\ last' = Did("circle", s, "1", FALSE, 1, events)

\* subdomain.ellipse: writes shape.e14 and sets the flag to 0
ellipse(s) ==
    LET events == <<Written(path[s], "shape.e14")>>
    IN  /\ files' = [d \in Paths |-> FilesAfter(d, files[d], events, 1)]
        /\ flag' = [flag EXCEPT ![s] = 0]
        /\ lastShape' = [lastShape EXCEPT ![path[s]] = "ellipse"]
        /\ last' = Did("ellipse", s, "0", FALSE, 0, events)

\* the mapping files gensub.py writes: the local ids onto full-domain ids
GenMaps ==
    {<<Header>> \o [k \in 1..MaxSubNodes |-> <<k, k + d>>] : d \in 0..1}

\* mutant of f_list: the mapping files are not in the list
f_list_without_maps == <<"fort.015", "fort.13", "fort.14", "bv.nodes">>

\* "f_list = ['fort.015', 'fort.13', 'fort.14', 'bv.nodes', 'py.140', 'py.141']"
f_list == <<"fort.015", "fort.13", "fort.14", "bv.nodes", "py.140", "py.141">>

\* the directories and the subdomain objects as a call finds them
World ==
    [files |-> files, py140 |-> py140, py141 |-> py141, flag |-> flag,
     node |-> sub2full_node, element |-> sub2full_element]

\* "for fid in f_list: if os.path.exists(...): os.remove(...)"
RemoveOld(s, w) ==
    LET old == SelectSeq(f_list, LAMBDA fid : fid \in w.files[path[s]])
    IN  [i \in 1..Len(old) |-> Removed(path[s], old[i])]

\* mutant of SetupFlag: the directory is not looked at
SetupFlag_given(s, fl, w) == IF fl # NoFlag THEN fl ELSE w.flag[s]

\* the flag of s after the first statement of setup(flag=fl)
SetupFlag(s, fl, w) ==
    IF fl = NoFlag /\ w.flag[s] = NoFlag
    THEN LET circle_found == {"shape.c14"} \cap w.files[path[s]]
             ellipse_found == {"shape.e14"} \cap w.files[path[s]]
             first == IF Cardinality(circle_found) > 0 THEN 1 ELSE w.flag[s]
         IN  IF Cardinality(ellipse_found) > 0 THEN 0 ELSE first
    ELSE IF fl # NoFlag THEN fl
    ELSE w.flag[s]

\* the fort.22* links gensub makes: an old link is removed first
Fort22Links(s, present) ==
    IF "fort.22" \in files[path[fulldomain[s]]]
    THEN (IF "fort.22" \in present THEN <<Removed(path[s], "fort.22")>> ELSE <<>>)
         \o <<Written(path[s], "fort.22")>>
    ELSE <<>>

\* subdomain.gensub run in the world w with flag fl after the events
\* `before` of its caller, the generator writing the mapping files node_file
\* and ele_file.  The result holds what the call returns, the events of
\* the caller and the call, and the world afterwards.
gensub(s, fl, before, node_file, ele_file, w) ==
    LET dir == path[s]
        written == before \o <<Written(dir, "gensub.in")>>
        present == FilesAfter(dir, w.files[dir], written, 1)
        keep140 == IF "py.140" \in present THEN w.py140[dir] ELSE <<>>
        keep141 == IF "py.141" \in present THEN w.py141[dir] ELSE <<>>
        flagged == [w EXCEPT !.flag[s] = fl]
    IN  IF fulldomain[s] = NoDomain
        \* self.fulldomain.path raises AttributeError
        THEN [ret |-> "raise", events |-> written,
              world |-> [flagged EXCEPT !.files[dir] = present,
                                        !.py140[dir] = keep140, !.py141[dir] = keep141]]
        ELSE
        LET full == w.files[path[fulldomain[s]]]
            call == Called(dir, IF "fort.13" \in full THEN GensubCmd13 ELSE GensubCmd,
                           fl, present)
            generated == "py.140" \in GensubOutput(call)
            now140 == IF generated THEN node_file ELSE keep140
            now141 == IF generated THEN ele_file ELSE keep141
            after == FilesAfter(dir, w.files[dir], written \o <<call>>, 1)
            m == MapsAfterUpdate(s, after, now140, now141)
            node_read == ReadMapFile(after, "py.140", now140).ok
            \* create_fort15 copies the fort.15 of the full domain
            copied == <<Written(dir, "fort.15")>>
            linked == Fort22Links(s, after \cup {"fort.15"})
            events == written \o <<call>>
                      \o (IF m.ok /\ "fort.15" \in full THEN copied \o linked ELSE <<>>)
        IN  [ret |-> IF m.ok /\ "fort.15" \in full THEN "command" ELSE "raise",
             events |-> events,
             world |-> [flagged EXCEPT
                          !.files[dir] = FilesAfter(dir, w.files[dir], events, 1),
                          !.py140[dir] = now140, !.py141[dir] = now141,
                          !.node[s] = m.node,
                          !.element[s] = IF node_read THEN m.element ELSE w.element[s]]]

\* the state after a call that ran gensub with result g
AfterGensub(op, obj, inferred, n, g) ==
    /\ files' = g.world.files
    /\ py140' = g.world.py140
    /\ py141' = g.world.py141
    /\ sub2full_node' = g.world.node
    /\ sub2full_element' = g.world.element
    /\ flag' = g.world.flag
    /\ last' = Did(op, obj, g.ret, inferred, n, g.events)

\* what subdomain.setup(flag=fl) does in the world w
SetupResult(s, fl, node_file, ele_file, w) ==
    gensub(s, SetupFlag(s, fl, w), RemoveOld(s, w), node_file, ele_file, w)

\* subdomain.setup(flag=fl)
setup(s, fl, node_file, ele_file) ==
    AfterGensub("setup", s, fl = NoFlag /\ flag[s] = NoFlag, SetupFlag(s, fl, World),
                SetupResult(s, fl, node_file, ele_file, World))

\* "for sub in self.subdomains: sub.setup()" from the i-th subdomain on, in
\* the world w after the events done
RECURSIVE SetupEach(_, _, _, _, _, _)
SetupEach(f, i, node_file, ele_file, done, w) ==
    IF i > Len(subdomains[f]) THEN [ret |-> "None", events |-> done, world |-> w]
    ELSE LET g == SetupResult(subdomains[f][i], NoFlag, node_file, ele_file, w)
         IN  IF g.ret = "raise"
             THEN [ret |-> "raise", events |-> done \o g.events, world |-> g.world]
             ELSE SetupEach(f, i + 1, node_file, ele_file, done \o g.events, g.world)

\* fulldomain.setup_all
setup_all(f, node_file, ele_file) ==
    AfterGensub("setup_all", f, FALSE, Len(subdomains[f]),
                SetupEach(f, 1, node_file, ele_file, <<>>, World))

\* the mapping files a run of gensub.py with flag fl can leave: none when it
\* is not started or does not find its shape file
GensubWrites(s, fl) ==
    IF fulldomain[s] # NoDomain /\ ShapeOf(fl) # {} /\ ShapeOf(fl) \subseteq files[path[s]]
    THEN GenMaps ELSE {<<>>}

setupFrame == <<path, subdomains, fulldomain, nspoolgs, runs, cmp>>

Circle ==
    \E s \in Subs :
       circle(s) /\ UNCHANGED <<setupFrame, py140, py141, sub2full_node, sub2full_element>>
Ellipse ==
    \E s \in Subs :
       ellipse(s) /\ UNCHANGED <<setupFrame, py140, py141, sub2full_node, sub2full_element>>
Gensub ==
    \E s \in Subs : \E node_file \in GensubWrites(s, flag[s]) :
       /\ AfterGensub("gensub", s, FALSE, flag[s],
                      gensub(s, flag[s], <<>>, node_file, <<Header, <<1, 1>>>>, World))
       /\ UNCHANGED <<setupFrame, lastShape>>
Setup ==
    \E s \in Subs, fl \in {NoFlag, 0, 1} :
       \E node_file \in GensubWrites(s, SetupFlag(s, fl, World)) :
          /\ setup(s, fl, node_file, <<Header, <<1, 1>>>>)
          /\ UNCHANGED <<setupFrame, lastShape>>
SetupAll ==
    \E f \in Fulls, node_file \in GenMaps :
       /\ setup_all(f, node_file, <<Header, <<1, 1>>>>)
       /\ UNCHANGED <<setupFrame, lastShape>>

\* two subdomain objects made for the same directory, s1 of the full domain
\* and s2 of it or of none; the directory may hold shape files already
InitSetup ==
    /\ path = [d \in Subs \cup Fulls |-> IF d \in Fulls THEN "full" ELSE "subA"]
    /\ \E attached \in {<<"s1">>, <<"s1", "s2">>} :
         /\ subdomains = [f \in Fulls |-> attached]
         /\ fulldomain = [s \in Subs |-> IF s \in Range(attached) THEN "F1" ELSE NoDomain]
    /\ flag = [s \in Subs |-> NoFlag]
    /\ nspoolgs = [s \in Subs |-> 0]
    /\ \E given \in {{}, {"fort.13", "fort.22"}}, shapes \in SUBSET {"shape.c14", "shape.e14"} :
         files = [d \in Paths |->
                    IF d = "full" THEN {"fort.14", "fort.15"} \cup given
                    ELSE IF d = "subA" THEN shapes ELSE {}]
    /\ py140 = [d \in Paths |-> <<>>]
    /\ py141 = [d \in Paths |-> <<>>]
    /\ sub2full_node = [s \in Subs |-> NoMap]
    /\ sub2full_element = [s \in Subs |-> NoMap]
    /\ last = NoLast
    /\ lastShape = [d \in Paths |-> "none"]
    /\ runs = NoRuns
    /\ cmp = NoCmp

NextSetup == Circle \/ Ellipse \/ Gensub \/ Setup \/ SetupAll

SpecSetup == InitSetup /\ [][NextSetup]_vars

(***************************************************************************)
(* Claims about the setup of a subdomain                                   *)
(***************************************************************************)
ShapeFiles == {"shape.c14", "shape.e14"}

\* C7: a flag that setup infers from the directory (no flag argument, no
\* flag in memory) is the flag of the shape that circle() or ellipse() wrote
\* there last, whatever else the directory holds
C7_ShapeRoundTrip ==
    (last.op = "setup" /\ last.ready) =>
       /\ lastShape[path[last.obj]] = "circle" => flag[last.obj] = 1
       /\ lastShape[path[last.obj]] = "ellipse" => flag[last.obj] = 0

\* the last call was a setup that reached the generator
SetupRanGensub == last.op = "setup" /\ Len(Calls(last)) = 1

\* the files gensub.py generates, which setup removes
Generated == {"fort.015", "fort.13", "fort.14", "bv.nodes", "py.140", "py.141"}

\* C8 as stated: when setup starts the generator, the directory holds none
\* of the generated control and mapping files and no shape file other than
\* the one of the flag in use
C8_SetupRemovesStale ==
    SetupRanGensub =>
       Calls(last)[1].present \cap (Generated \cup (ShapeFiles \ ShapeOf(last.n))) = {}

\* C8 amended: when setup starts the generator, the directory holds none of
\* fort.015, fort.13, fort.14, bv.nodes, py.140 and py.141; setup removes no
\* shape file, so a shape file of either kind that was there is still there
C8_SetupRemovesGenerated ==
    SetupRanGensub =>
       /\ Calls(last)[1].present \cap Generated = {}
       /\ \A i \in 1..Len(last.events) :
             last.events[i].kind = "remove" => last.events[i].what \notin ShapeFiles
       /\ Calls(last)[1].present \cap ShapeFiles \subseteq files[path[last.obj]]

C8_Witness ==
    /\ SetupRanGensub
    /\ \E i \in 1..Len(last.events) : last.events[i] = Removed(path[last.obj], "py.140")
    /\ ShapeFiles \subseteq Calls(last)[1].present

(***************************************************************************)
(* Claims about the boundary conditions                                    *)
(***************************************************************************)
\* the calls of the boundary-condition generator the last call made
GenbcsCalls == SelectSeq(last.events, LAMBDA e : e.kind = "call" /\ e.what = "py/genbcs.py")

\* genbcs with a full domain: without the output no subprocess and the
\* message, with it one run of the generator and its command line
GenbcsGuarded ==
    (last.op = "genbcs" /\ last.ret # "raise") =>
       IF last.ready
       THEN Len(Calls(last)) = 1 /\ Len(GenbcsCalls) = 1 /\ last.ret = "command"
       ELSE Len(Calls(last)) = 0 /\ last.ret = Sentinel

\* C11 as stated: the generator is never run while the full-domain output
\* is missing: genbcs then runs nothing and returns the message, and
\* genbcss called in that state runs genbcs for no subdomain and returns an
\* empty list; with the output there genbcs runs the generator once
C11_NoGenbcsWithoutOutput ==
    /\ GenbcsGuarded
    /\ (last.op = "genbcss" /\ ~last.ready) =>
          Len(GenbcsCalls) = 0 /\ last.n = 0 /\ last.ret = "list"

\* C11 amended: as stated for genbcs; genbcss tests check_fulldomain() after
\* its optional ADCPOST step (L true), so called without the output it
\* returns an empty list and runs no generator unless that step ran, and
\* whenever it runs the generator the output is in the full domain's
\* directory
C11_GenbcsOnlyWithOutput ==
    /\ GenbcsGuarded
    /\ (last.op = "genbcss" /\ ~last.ready /\ Len(Calls(last)) = Len(GenbcsCalls)) =>
          Len(GenbcsCalls) = 0 /\ last.n = 0 /\ last.ret = "list"
    /\ (last.op = "genbcss" /\ Len(GenbcsCalls) > 0) => check_fulldomain(last.obj)

C11_Witness ==
    /\ last.op = "genbcss" /\ ~last.ready /\ last.ret = "list" /\ last.n = 0
    /\ Len(subdomains[last.obj]) > 0
    /\ Len(last.events) = 0

(***************************************************************************)
(* Claims about the subdomains of a full domain                            *)
(***************************************************************************)
\* C12: add_subdomain(s) appends one entry for s to the collection of the
\* full domain and sets the back-reference of s; add_subdomains(list)
\* appends the elements in order and sets each back-reference; entries
\* already there stay in place, also when s is among them
C12_AddAppends ==
    [][/\ last'.op = "add_subdomain" =>
             \E s \in Subs :
                /\ subdomains' = [subdomains EXCEPT ![last'.obj] = Append(@, s)]
                /\ fulldomain' = [fulldomain EXCEPT ![s] = last'.obj]
       /\ last'.op = "add_subdomains" =>
             \E list \in SubLists :
                /\ Len(list) = last'.n
                /\ subdomains' = [subdomains EXCEPT ![last'.obj] = @ \o list]
                /\ \A s \in Subs :
                      fulldomain'[s] = IF s \in Range(list) THEN last'.obj
                                       ELSE fulldomain[s]]_vars

\* the same subdomain added twice is listed twice
C12_Witness ==
    /\ last.op = "add_subdomain"
    /\ \E s \in Subs : subdomains[last.obj] = <<s, s>> /\ fulldomain[s] = last.obj

(***************************************************************************)
(* Claims about the flag at the generation step                            *)
(***************************************************************************)
\* the runs of gensub.py the last call made
GensubCalls ==
    SelectSeq(last.events, LAMBDA e : e.kind = "call" /\ e.what \in {GensubCmd, GensubCmd13})

\* C13 as stated: whenever gensub.py is run, by gensub, setup or setup_all,
\* the flag is 0 or 1 and the shape file of that flag is in the directory
C13_FlagSetAtGensub ==
    \A i \in 1..Len(GensubCalls) :
       /\ GensubCalls[i].n \in {0, 1}
       /\ ShapeOf(GensubCalls[i].n) \subseteq GensubCalls[i].present

\* C13 amended: gensub.py is run with the flag the subdomain has at that
\* moment, unset included, and nothing tests that the shape file of the
\* flag exists.  Through setup and setup_all an unset flag reaches the
\* generator only when the directory holds no shape file, and a flag that
\* setup inferred has its shape file in the directory.
C13_FlagPassedAsIs ==
    /\ (last.op \in {"gensub", "setup"} /\ Len(GensubCalls) = 1) =>
          GensubCalls[1].n = flag[last.obj]
    /\ last.op \in {"setup", "setup_all"} =>
          \A i \in 1..Len(GensubCalls) :
             GensubCalls[i].n = NoFlag => GensubCalls[i].present \cap ShapeFiles = {}
    /\ (last.op = "setup" /\ last.ready) =>
          \A i \in 1..Len(GensubCalls) :
             ShapeOf(GensubCalls[i].n) \subseteq GensubCalls[i].present

\* setup_all ran the generator with an unset flag
C13_Witness ==
    /\ last.op = "setup_all"
    /\ \E i \in 1..Len(GensubCalls) : GensubCalls[i].n = NoFlag

(***************************************************************************)
(* What a method of one object does to the other objects                   *)
(***************************************************************************)
\* a full domain made with or without a list of subdomains, the subdomains
\* made with or without their full domain, over directories that hold the
\* input of the full domain, with or without the output of its run and a
\* shape file
InitFrame ==
    /\ path = [d \in Subs \cup Fulls |->
                 IF d \in Fulls THEN "full" ELSE IF d = "s1" THEN "subA" ELSE "subB"]
    /\ subdomains \in [Fulls -> {<<>>, <<"s1">>, <<"s1", "s2">>}]
    /\ fulldomain \in [Subs -> {NoDomain} \cup Fulls]
    /\ flag = [s \in Subs |-> NoFlag]
    /\ nspoolgs = [s \in Subs |-> 0]
    /\ \E out \in {{}, Fort06Names \cup PE065Names}, shapes \in {{}, {"shape.c14"}} :
         files = [d \in Paths |->
                    IF d = "full" THEN {"fort.14", "fort.15"} \cup out ELSE shapes]
    /\ py140 = [d \in Paths |-> <<>>]
    /\ py141 = [d \in Paths |-> <<>>]
    /\ sub2full_node = [s \in Subs |-> NoMap]
    /\ sub2full_element = [s \in Subs |-> NoMap]
    /\ last = NoLast
    /\ lastShape = [d \in Paths |-> "none"]
    /\ runs = NoRuns
    /\ cmp = NoCmp

\* one call of a method on the objects just made
Fresh == last.op = "none"

NextFrame ==
    \/ Fresh /\ AddSubdomain
    \/ Fresh /\ AddSubdomains
    \/ Fresh /\ UpdateSubdomains
    \/ Fresh /\ SetFulldomain
    \/ Fresh /\ Genfull
    \/ Fresh /\ SubGenfull
    \/ Fresh /\ Genbcs
    \/ Fresh /\ Genbcss
    \/ Fresh /\ Gensub
    \/ Fresh /\ Setup
    \/ Fresh /\ SetupAll

SpecFrame == InitFrame /\ [][NextFrame]_vars

\* the attributes of the subdomain objects
SubAttributes == <<fulldomain, flag, nspoolgs, sub2full_node, sub2full_element>>
\* the directories of the subdomains, of the full domains
SubDirs == [s \in Subs |-> files[path[s]]]
FullDirs == [f \in Fulls |-> files[path[f]]]

\* C14 as stated: a method of a full domain leaves the attributes and the
\* directories of the subdomains alone, and a method of a subdomain leaves
\* the list and the directory of the full domain alone
C14_OwnStateOnly ==
    [][/\ last'.op \in {"add_subdomain", "add_subdomains", "update_subdomains",
                        "fulldomain.genfull", "genbcss", "setup_all"} =>
             UNCHANGED <<SubAttributes, SubDirs>>
       /\ last'.op \in {"subdomain.genfull", "set_fulldomain", "gensub", "setup",
                        "genbcs"} =>
             UNCHANGED <<subdomains, FullDirs>>]_vars

\* C14 amended: the methods reach across objects in these ways and no
\* others: add_subdomain, add_subdomains and update_subdomains set the
\* back-reference of subdomains; fulldomain.genfull sets their nspoolgs;
\* genbcss adds fort.019 to their directories; setup_all sets their flags
\* and maps and rewrites their directories; set_fulldomain appends the
\* subdomain to the list of the full domain; subdomain.genfull writes
\* genfull.in and the generator's fort.015 into the full domain's
\* directory; gensub, setup and genbcs change nothing of the full domain
C14_CrossEffects ==
    [][/\ last'.op \in {"add_subdomain", "add_subdomains", "update_subdomains"} =>
             UNCHANGED <<flag, nspoolgs, sub2full_node, sub2full_element, files>>
       /\ last'.op = "fulldomain.genfull" =>
             UNCHANGED <<fulldomain, flag, sub2full_node, sub2full_element, SubDirs>>
       /\ last'.op = "genbcss" =>
             /\ UNCHANGED SubAttributes
             /\ \A s \in Subs : files'[path[s]] \subseteq files[path[s]] \cup {"fort.019"}
       /\ last'.op = "setup_all" =>
             UNCHANGED <<fulldomain, nspoolgs, subdomains, FullDirs>>
       /\ last'.op = "set_fulldomain" =>
             /\ subdomains' = [subdomains EXCEPT
                                 ![fulldomain'[last'.obj]] = Append(@, last'.obj)]
             /\ UNCHANGED files
       /\ (last'.op = "subdomain.genfull" /\ last'.ret # "raise") =>
             /\ UNCHANGED subdomains
             /\ files'[path[fulldomain[last'.obj]]] =
                   files[path[fulldomain[last'.obj]]] \cup {"genfull.in", "fort.015"}
       /\ last'.op \in {"gensub", "setup", "genbcs"} =>
             UNCHANGED <<subdomains, FullDirs>>]_vars

\* subdomain.genfull left genfull.in in the directory of the full domain
C14_Witness ==
    /\ last.op = "subdomain.genfull"
    /\ fulldomain[last.obj] # NoDomain
    /\ "genfull.in" \in files[path[fulldomain[last.obj]]]

(***************************************************************************)
(* Claims about the order of the corrections                               *)
(***************************************************************************)
\* step t of the comparison comes before its i-th step
Before(t, i) == \E j \in 1..(i - 1) : cmp.trace[j] = t

\* C15: in compare_runSet and in compare_to_fulldomain, when fort61 is among
\* the timeseries keys the dry-data correction is applied, after the station
\* bathymetry was loaded and before fort61 is differenced
C15_BathymetryThenFixThenDiff ==
    /\ (cmp.status = "ok" /\ fort61 \in Range(cmp.ts_keys)) =>
          <<"fix_dry_data">> \in Range(cmp.trace)
    /\ \A i \in 1..Len(cmp.trace) :
          /\ cmp.trace[i] = <<"fix_dry_data">> => Before(<<"set_station_bathymetry">>, i)
          /\ cmp.trace[i] = Tag("diff", fort61) => Before(<<"fix_dry_data">>, i)

(***************************************************************************)
(* Claims about the check of the full-domain output                        *)
(***************************************************************************)
\* the directory of full domain f holds a file fort.06* and a file
\* PE*/fort.065
BothKinds(f) ==
    /\ \E name \in files[path[f]] : name \in Fort06Names
    /\ \E name \in files[path[f]] : name \in PE065Names

\* C16: whatever files were written to and deleted from the directory of
\* the full domain, check_fulldomain() is true exactly when a file matches
\* fort.06* and a file matches PE*/fort.065, and subdomain.check_fulldomain
\* returns what the check of its full domain returns
C16_CheckIffBothKinds ==
    /\ last.op = "check_fulldomain" =>
          last.ret = (IF BothKinds(last.obj) THEN "True" ELSE "False")
    /\ (last.op = "subdomain.check_fulldomain" /\ fulldomain[last.obj] # NoDomain) =>
          last.ret = (IF BothKinds(fulldomain[last.obj]) THEN "True" ELSE "False")

\* the check is false in a directory that holds the per-processor output
\* and files of the generators, but no fort.06*
C16_Witness ==
    /\ last.op = "check_fulldomain" /\ last.ret = "False"
    /\ files[path[last.obj]] \cap PE065Names # {}
    /\ "genfull.in" \in files[path[last.obj]]

(***************************************************************************)
(* Several full domains and the back-references of their subdomains        *)
(***************************************************************************)
\* two fulldomain objects; both are made for the directory of the full
\* domain, which none of the methods below reads
Owners == {"F1", "F2"}

\* the state after subdomain(path) for each subdomain and then
\* fulldomain(path) or fulldomain(path, subdomains=[s1]) for each full domain
InitOwn ==
    /\ path = [d \in Subs \cup Owners |->
                 IF d \in Owners THEN "full" ELSE IF d = "s1" THEN "subA" ELSE "subB"]
    /\ subdomains \in [Owners -> {<<>>, <<"s1">>}]
    /\ fulldomain = [s \in Subs |-> NoDomain]
    /\ flag = [s \in Subs |-> NoFlag]
    /\ nspoolgs = [s \in Subs |-> 0]
    /\ files = [d \in Paths |-> {}]
    /\ py140 = [d \in Paths |-> <<>>]
    /\ py141 = [d \in Paths |-> <<>>]
    /\ sub2full_node = [s \in Subs |-> NoMap]
    /\ sub2full_element = [s \in Subs |-> NoMap]
    /\ last = NoLast
    /\ lastShape = [d \in Paths |-> "none"]
    /\ runs = NoRuns
    /\ cmp = NoCmp

AddSubdomainTo ==
    \E f \in Owners, s \in Subs :
       /\ Len(subdomains[f]) < MaxSubList
       /\ add_subdomain(f, s)
       /\ UNCHANGED <<domainFrame, files, nspoolgs>>
AddSubdomainsTo ==
    \E f \in Owners, list \in SubLists :
       /\ Len(subdomains[f]) + Len(list) <= MaxSubList
       /\ add_subdomains(f, list)
       /\ UNCHANGED <<domainFrame, files, nspoolgs>>
UpdateSubdomainsOf ==
    \E f \in Owners : update_subdomains(f) /\ UNCHANGED <<domainFrame, files, nspoolgs>>
SetFulldomainTo ==
    \E s \in Subs, f \in Owners :
       /\ Len(subdomains[f]) < MaxSubList
       /\ set_fulldomain(s, f)
       /\ UNCHANGED <<domainFrame, files, nspoolgs>>

NextOwn ==
    \/ AddSubdomainTo
    \/ AddSubdomainsTo
    \/ UpdateSubdomainsOf
    \/ SetFulldomainTo

SpecOwn == InitOwn /\ [][NextOwn]_vars

\* C17 as stated: every subdomain in the list of a full domain F refers to F
C17_ListedRefersToOwner ==
    \A f \in Owners : \A s \in Range(subdomains[f]) : fulldomain[s] = f

\* what a step appended to the list of full domain g
Appended(g) == SubSeq(subdomains'[g], Len(subdomains[g]) + 1, Len(subdomains'[g]))

\* C17: a call of add_subdomain, add_subdomains or set_fulldomain for full
\* domain F appends to the list of F only, and each subdomain it appended, and
\* each subdomain whose back-reference it changed, refers to F and is in the
\* list of F; after update_subdomains of F every subdomain in the list of F
\* refers to F; no call removes a subdomain from a list
C17_LastAttachWins ==
    [][LET F == IF last'.op = "set_fulldomain" THEN fulldomain'[last'.obj] ELSE last'.obj
       IN  /\ F \in Owners
           /\ \A g \in Owners :
                 /\ Len(subdomains'[g]) >= Len(subdomains[g])
                 /\ SubSeq(subdomains'[g], 1, Len(subdomains[g])) = subdomains[g]
                 /\ g # F => subdomains'[g] = subdomains[g]
           /\ \A s \in Subs :
                 (fulldomain'[s] # fulldomain[s] \/ s \in Range(Appended(F))) =>
                     fulldomain'[s] = F /\ s \in Range(subdomains'[F])
           /\ last'.op = "update_subdomains" =>
                 \A s \in Range(subdomains'[F]) : fulldomain'[s] = F
      ]_vars

\* s1 was added to F1 and then to F2: both list it, it refers to F2
C17_Witness ==
    /\ last.op \in {"add_subdomain", "add_subdomains"} /\ last.obj = "F2"
    /\ "s1" \in Range(subdomains["F1"]) /\ "s1" \in Range(subdomains["F2"])
    /\ fulldomain["s1"] = "F2"

====
